---- MODULE Spec2Model ----
(***************************************************************************)
(* Comment store of the BAW Cesium viewer (LocalCommentsAPI), in its two   *)
(* releases that the repository carries side by side: the 2.0.0 comments   *)
(* module and the 2.1.0 "improved" one.  The variable `version' fixes      *)
(* which of the two is loaded.                                             *)
(*                                                                         *)
(* JavaScript strings are sequences of one-character strings, so that the  *)
(* CSV codec can be modelled character by character.  Numbers are          *)
(* fixed-point integers in units of 10^-7, one digit finer than the six    *)
(* decimals toFixed(6) keeps.                                              *)
(***************************************************************************)
EXTENDS Integers, Sequences, FiniteSets, TLC

\* ---------------------------------------------------------------- bounds
MaxCalls == 2         \* store calls explored per run
MaxTime == 1          \* the millisecond clock stops advancing here

VARIABLES
  version,    \* which comments module is loaded: "2.0.0" or "2.1.0"
  now,        \* Date.now(), in milliseconds
  idCounter,  \* state of the 2.1.0 id generator
  data,       \* LocalCommentsAPI.data, the in-memory Document
  storage,    \* localStorage item under storageKey
  cache,      \* LocalCommentsAPI._cache, a Map in insertion order
  last,       \* the call that produced this state and what it returned
  pre,        \* data, storage and cache as they were before that call
  calls,      \* number of store calls made so far
  ui,         \* the placement fields of the CommentsManager
  uiPre       \* those fields as they were before the last call

vars == <<version, now, idCounter, data, storage, cache, last, pre, calls, ui, uiPre>>

\* ------------------------------------------------------ JavaScript values
Str(s) == [t |-> "str", s |-> s, n |-> 0]
Num(n) == [t |-> "num", s |-> <<>>, n |-> n]
NaN == [t |-> "nan", s |-> <<>>, n |-> 0]
Null == [t |-> "null", s |-> <<>>, n |-> 0]

Digits == <<"0", "1", "2", "3", "4", "5", "6", "7", "8", "9">>

DigitChar(d) == Digits[d + 1]

IsDigit(c) == \E d \in 1..10 : Digits[d] = c

DigitVal(c) == (CHOOSE d \in 1..10 : Digits[d] = c) - 1

RECURSIVE NatToString(_)
\* Number.prototype.toString for a non-negative integer
NatToString(n) ==
  IF n < 10 THEN <<DigitChar(n)>>
  ELSE NatToString(n \div 10) \o <<DigitChar(n % 10)>>

RECURSIVE PadStart(_, _)
\* String.prototype.padStart(w, "0")
PadStart(s, w) == IF Len(s) >= w THEN s ELSE PadStart(<<"0">> \o s, w)

\* Date.prototype.toISOString below one second after the epoch is
\* "1970-01-01T00:00:00." ++ the three-digit millisecond field ++ "Z"; the
\* constant prefix is left out.
ToISOString(ms) == PadStart(NatToString(ms % 1000), 3) \o <<"Z">>

\* ------------------------------------------------------------- inputs
SceneA == <<"A">>
SceneB == <<"B">>
Scenes == {SceneA, SceneB}

TextPlain == <<"o", "k">>
\* He said, "hi"
TextQuoted == <<"H", "e", " ", "s", "a", "i", "d", ",", " ", "\"", "h", "i", "\"">>
TextEdited == <<"n", "e", "w">>

\* (10, 20, 5)
PosExact == [x |-> Num(100000000), y |-> Num(200000000), z |-> Num(50000000)]
\* (0.1234567, -2.5, 0)
PosFine == [x |-> Num(1234567), y |-> Num(-25000000), z |-> Num(0)]

FeatureF == <<"F">>

UserAnna == <<"A", "n", "n", "a">>

\* (text, position, featureName) triples offered to saveComment
CommentInputs ==
  { <<TextQuoted, PosExact, Str(FeatureF)>>,
    <<TextPlain, PosFine, Null>> }

\* ------------------------------------------------------------ Document
\* data.comments is a JavaScript object used as a map; its keys keep their
\* insertion order, so it is a sequence of [key, list] entries.
HasKey(m, k) == \E i \in 1..Len(m) : m[i].key = k

KeyIndex(m, k) == CHOOSE i \in 1..Len(m) : m[i].key = k

GetList(m, k) == m[KeyIndex(m, k)].list

PutList(m, k, l) ==
  IF HasKey(m, k) THEN [m EXCEPT ![KeyIndex(m, k)].list = l]
  ELSE Append(m, [key |-> k, list |-> l])

\* this.data.comments[sceneName] || []
ListOrEmpty(m, k) == IF HasKey(m, k) THEN GetList(m, k) ELSE <<>>

RECURSIVE AllComments(_)
\* every comment of the Document, scene after scene
AllComments(m) ==
  IF m = <<>> THEN <<>> ELSE Head(m).list \o AllComments(Tail(m))

\* BAWUtils.constants.STORAGE_VERSION of 2.1.0; "1.0" literal in 2.0.0
StorageVersion(v) == IF v = "2.0.0" THEN "1.0" ELSE "CURRENT"

\* `shape' tells what the `comments' property of the object is: "map" (a
\* plain object), "array", or, for objects JSON.parse can give,
\* "missing", "null", "string" or "number"
getDefaultData(v) ==
  [comments |-> <<>>, metadata |-> [version |-> StorageVersion(v)], shape |-> "map"]

\* ---------------------------------------------------------------- JSON
\* JSON.stringify writes a NaN number as null; every other value the
\* Document holds is written as it is.  A JSON text is modelled by the
\* value it denotes, so JSON.parse gives that value back.
JsonValue(v) == IF v.t = "nan" THEN Null ELSE v

JsonComment(c) ==
  [c EXCEPT !.position_x = JsonValue(@), !.position_y = JsonValue(@),
            !.position_z = JsonValue(@)]

JsonEntry(e) == [key |-> e.key, list |-> [i \in 1..Len(e.list) |-> JsonComment(e.list[i])]]

\* JSON.stringify writes of an array its indexed elements only: the scene
\* lists set as named properties on an array are left out
Stringify(d) ==
  [comments |-> IF d.shape = "array" THEN <<>>
                ELSE [i \in 1..Len(d.comments) |-> JsonEntry(d.comments[i])],
   metadata |-> d.metadata, shape |-> d.shape]

NoItem == [k |-> "none", doc |-> <<>>]

Item(json) == [k |-> "json", doc |-> <<json>>]

\* ------------------------------------------------------------ the store
Store(d, s, c) == [data |-> d, storage |-> s, cache |-> c]

\* what a call returned: k is "record", "list", "string", "true", "false",
\* "null", "undefined" or "throw"
Ret(k, rec, list, str, err) ==
  [k |-> k, rec |-> rec, list |-> list, str |-> str, err |-> err]

RetTrue == Ret("true", <<>>, <<>>, <<>>, "")
RetFalse == Ret("false", <<>>, <<>>, <<>>, "")
RetNull == Ret("null", <<>>, <<>>, <<>>, "")
RetUndefined == Ret("undefined", <<>>, <<>>, <<>>, "")
RetRecord(r) == Ret("record", <<r>>, <<>>, <<>>, "")
RetList(l) == Ret("list", <<>>, l, <<>>, "")
RetString(t) == Ret("string", <<>>, <<>>, t, "")
RetThrow(e) == Ret("throw", <<>>, <<>>, <<>>, e)

\* what a store method leaves behind: the store, the value returned, and
\* whether it wrote to localStorage ("done"), tried and got the quota
\* error ("failed"), or did not try ("none")
Out(st, ret, write) == [st |-> st, ret |-> ret, write |-> write]

\* stored ? JSON.parse(stored) : getDefaultData(), inside safeExecute with
\* getDefaultData() as fallback: text JSON.parse rejects (k = "garbage")
\* gives the default, text it accepts gives whatever the text denotes
loadFromStorage(v, s) ==
  IF s.k = "json" THEN s.doc[1] ELSE getDefaultData(v)

\* this.data.comments is undefined, so this.data.comments[sceneName] and
\* Object.keys(this.data.comments) throw a TypeError
NoComments(d) == d.shape \in {"missing", "null"}

\* localStorage.setItem throws when the quota is exceeded (fail); the
\* cache is cleared only after setItem returned.
saveToStorage(st, fail) ==
  IF fail THEN Out(st, RetFalse, "failed")
  ELSE Out(Store(st.data, Item(Stringify(st.data)), <<>>), RetTrue, "done")

\* { ...comment, position: new Cesium.Cartesian3(x, y, z) }
Materialize(c) ==
  [id |-> c.id, text |-> c.text, position_x |-> c.position_x,
   position_y |-> c.position_y, position_z |-> c.position_z,
   featureName |-> c.featureName, timestamp |-> c.timestamp,
   user |-> c.user, szene |-> c.szene,
   position |-> [x |-> c.position_x, y |-> c.position_y, z |-> c.position_z]]

\* comments.map(comment => ({ ...comment, position: ... }))
MaterializeAll(comments) == [i \in 1..Len(comments) |-> Materialize(comments[i])]

\* BAWUtils.constants.CACHE_MAX_SIZE
CacheMaxSize == 1

CacheHas(c, k) == HasKey(c, k)

loadComments(v, st, sceneName) ==
  IF v = "2.1.0" /\ sceneName = <<>> THEN Out(st, RetList(<<>>), "none")
  ELSE IF CacheHas(st.cache, sceneName)
  THEN Out(st, RetList(GetList(st.cache, sceneName)), "none")
  ELSE IF v = "2.0.0" /\ NoComments(st.data) THEN Out(st, RetThrow("TypeError"), "none")
  ELSE
    LET comments == IF NoComments(st.data) THEN <<>>
                    ELSE MaterializeAll(ListOrEmpty(st.data.comments, sceneName))
        room == IF v = "2.1.0" /\ Len(st.cache) >= CacheMaxSize
                THEN Tail(st.cache) ELSE st.cache
    IN Out(Store(st.data, st.storage,
                 Append(room, [key |-> sceneName, list |-> comments])),
           RetList(comments), "none")

\* BAWUtils.utils.generateId of 2.1.0
generateId(counter) == <<"c">> \o NatToString(counter)

\* Date.now().toString() in 2.0.0
NewId(v, ms, counter) == IF v = "2.0.0" THEN NatToString(ms) ELSE generateId(counter)

\* featureName || null
OrNull(f) == IF f.t = "str" /\ f.s = <<>> THEN Null ELSE f

saveComment(v, st, ms, counter, sceneName, commentText, position, featureName, userName, fail) ==
  IF NoComments(st.data)
  THEN IF v = "2.0.0" THEN Out(st, RetThrow("TypeError"), "none")
       ELSE Out(st, RetNull, "none")
  ELSE
  LET newComment ==
        [id |-> NewId(v, ms, counter), text |-> commentText,
         position_x |-> position.x, position_y |-> position.y,
         position_z |-> position.z, featureName |-> OrNull(featureName),
         timestamp |-> ToISOString(ms), user |-> userName, szene |-> sceneName]
      pushed == PutList(st.data.comments, sceneName,
                        Append(ListOrEmpty(st.data.comments, sceneName), newComment))
      grown == Store([st.data EXCEPT !.comments = pushed], st.storage, st.cache)
      saved == saveToStorage(grown, fail)
  IN Out(saved.st, RetRecord([Materialize(newComment) EXCEPT !.position = position]),
         saved.write)

HasId(list, commentId) == \E i \in 1..Len(list) : list[i].id = commentId

\* index of the comment Array.prototype.find returns
FindIndex(list, commentId) ==
  CHOOSE i \in 1..Len(list) :
    list[i].id = commentId /\ \A j \in 1..(i - 1) : list[j].id # commentId

\* what an error thrown inside a store method gives the caller: 2.0.0 lets
\* it propagate, 2.1.0 runs the body inside safeExecute, which logs the
\* error and returns the fallback false
Thrown(v, st, message) ==
  IF v = "2.0.0" THEN Out(st, RetThrow(message), "none")
  ELSE Out(st, RetFalse, "none")

updateComment(v, st, ms, commentId, newText, sceneName, fail) ==
  IF NoComments(st.data) THEN Thrown(v, st, "TypeError")
  ELSE IF ~HasKey(st.data.comments, sceneName) THEN Thrown(v, st, "Scene not found")
  ELSE LET comments == GetList(st.data.comments, sceneName) IN
    IF ~HasId(comments, commentId) THEN Thrown(v, st, "Comment not found")
    ELSE
      LET i == FindIndex(comments, commentId)
          edited == [comments EXCEPT ![i].text = newText,
                                     ![i].timestamp = ToISOString(ms)]
          changed == Store([st.data EXCEPT !.comments =
                              PutList(@, sceneName, edited)],
                           st.storage, st.cache)
          saved == saveToStorage(changed, fail)
      IN Out(saved.st, RetTrue, saved.write)

deleteComment(v, st, commentId, sceneName, fail) ==
  IF NoComments(st.data) THEN Thrown(v, st, "TypeError")
  ELSE IF ~HasKey(st.data.comments, sceneName) THEN Thrown(v, st, "Scene not found")
  ELSE
    LET before == GetList(st.data.comments, sceneName)
        KeepOther(c) == c.id # commentId
        after == SelectSeq(before, KeepOther)
        filtered == Store([st.data EXCEPT !.comments =
                             PutList(@, sceneName, after)],
                          st.storage, st.cache)
        deleted == Len(after) < Len(before)
        saved == saveToStorage(filtered, fail)
    IN IF v = "2.0.0" THEN Out(saved.st, RetTrue, saved.write)
       ELSE IF deleted THEN Out(saved.st, RetTrue, saved.write)
       ELSE Out(filtered, RetFalse, "none")

clearAllData(v, st, fail) ==
  LET saved == saveToStorage(Store(getDefaultData(v), st.storage, <<>>), fail)
  IN Out(saved.st, RetUndefined, saved.write)

getStats(d) ==
  [totalComments |-> Len(AllComments(d.comments)),
   scenes |-> Len(d.comments),
   scenesWithComments |-> [i \in 1..Len(d.comments) |-> d.comments[i].key]]

\* ------------------------------------------------------- JSON exchange
\* a file handed to importData: JSON text denoting an object (k = "json"),
\* or text JSON.parse rejects (k = "garbage")
JsonText(value) == [k |-> "json", doc |-> <<value>>]

\* {"metadata": {...}} with "comments" absent, null, "abc", 5 or []
JsonOddComments(v, shape) ==
  JsonText([comments |-> <<>>, metadata |-> [version |-> StorageVersion(v)],
            shape |-> shape])

OddShapes == {"missing", "null", "string", "number", "array"}

\* parsed.comments && typeof parsed.comments === 'object'
CommentsIsObject(value) == value.shape \in {"map", "array"}

JsonGarbage == [k |-> "garbage", doc |-> <<>>]

exportJSON(d) == JsonText(Stringify(d))

importData(v, st, jsonData, fail) ==
  IF jsonData.k = "garbage" THEN Thrown(v, st, "SyntaxError")
  ELSE IF ~CommentsIsObject(jsonData.doc[1])
  THEN Thrown(v, st, "Invalid data structure")
  ELSE
    LET replaced == Store(jsonData.doc[1], st.storage, st.cache)
        saved == saveToStorage(replaced, fail)
    IN IF v = "2.0.0" THEN Out(saved.st, RetTrue, saved.write)
       ELSE Out(Store(saved.st.data, saved.st.storage, <<>>), RetTrue, saved.write)

\* ----------------------------------------------------------- CSV codec
Quote == "\""

Pow10(k) == CASE k = 0 -> 1 [] k = 1 -> 10 [] k = 2 -> 100 [] k = 3 -> 1000
              [] k = 4 -> 10000 [] k = 5 -> 100000 [] k = 6 -> 1000000
              [] OTHER -> 10000000

\* Number.prototype.toFixed(6): the magnitude rounded to six decimals
\* (a tie takes the larger integer), behind "-" when the number is below
\* zero; NaN gives "NaN"
ToFixed6(num) ==
  IF num.t = "nan" THEN <<"N", "a", "N">>
  ELSE
    LET mag == IF num.n < 0 THEN 0 - num.n ELSE num.n
        micro == (mag + 5) \div 10
        sign == IF num.n < 0 THEN <<"-">> ELSE <<>>
    IN sign \o NatToString(micro \div Pow10(6)) \o <<".">>
            \o PadStart(NatToString(micro % Pow10(6)), 6)

\* toFixed exists on numbers only: calling it on null is a TypeError
CanToFixed(num) == num.t \in {"num", "nan"}

RECURSIVE TakeDigits(_)
TakeDigits(s) ==
  IF s # <<>> /\ IsDigit(Head(s)) THEN <<Head(s)>> \o TakeDigits(Tail(s)) ELSE <<>>

RECURSIVE StringToNat(_)
StringToNat(s) ==
  IF s = <<>> THEN 0 ELSE StringToNat(SubSeq(s, 1, Len(s) - 1)) * 10 + DigitVal(s[Len(s)])

RECURSIVE PadEnd(_, _)
PadEnd(s, w) == IF Len(s) >= w THEN s ELSE PadEnd(s \o <<"0">>, w)

WhiteSpace == {" ", "\t", "\r", "\n"}

RECURSIVE TrimStart(_)
TrimStart(s) == IF s # <<>> /\ Head(s) \in WhiteSpace THEN TrimStart(Tail(s)) ELSE s

\* parseFloat: leading blanks, a sign, then the longest decimal literal;
\* NaN when there is none.  Digits after the seventh decimal are below
\* the resolution of Num and dropped; exponents do not occur in the texts
\* used here.
ParseFloat(s) ==
  LET t == TrimStart(s)
      signed == t # <<>> /\ Head(t) \in {"-", "+"}
      u == IF signed THEN Tail(t) ELSE t
      ip == TakeDigits(u)
      rest == SubSeq(u, Len(ip) + 1, Len(u))
      fp == IF rest # <<>> /\ Head(rest) = "." THEN TakeDigits(Tail(rest)) ELSE <<>>
      frac == StringToNat(PadEnd(SubSeq(fp, 1, IF Len(fp) < 7 THEN Len(fp) ELSE 7), 7))
      mag == StringToNat(ip) * Pow10(7) + frac
  IN IF ip = <<>> /\ fp = <<>> THEN NaN
     ELSE Num(IF signed /\ Head(t) = "-" THEN 0 - mag ELSE mag)

RECURSIVE escapeCsvValue(_)
\* String(value).replace(/"/g, '""')
escapeCsvValue(s) ==
  IF s = <<>> THEN <<>>
  ELSE (IF Head(s) = Quote THEN <<Quote, Quote>> ELSE <<Head(s)>>)
       \o escapeCsvValue(Tail(s))

InQuotes(s) == <<Quote>> \o s \o <<Quote>>

RECURSIVE Join(_, _)
\* Array.prototype.join
Join(parts, sep) ==
  IF parts = <<>> THEN <<>>
  ELSE IF Len(parts) = 1 THEN parts[1]
  ELSE parts[1] \o sep \o Join(Tail(parts), sep)

CsvHeader ==
  <<
     "S", "z", "e", "n", "e", ",", "K", "o", "m", "m", "e", "n", "t",
     "a", "r", ",", "P", "o", "s", "i", "t", "i", "o", "n", "_", "X",
     ",", "P", "o", "s", "i", "t", "i", "o", "n", "_", "Y", ",", "P",
     "o", "s", "i", "t", "i", "o", "n", "_", "Z", ",", "F", "e", "a",
     "t", "u", "r", "e", ",", "D", "a", "t", "u", "m", ",", "I", "D",
     ",", "B", "e", "n", "u", "t", "z", "e", "r"
  >>

\* comment.featureName || ''
FeatureOrEmpty(f) == IF f.t = "str" THEN f.s ELSE <<>>

\* one data row; 2.0.0 doubles the quotes of the text only, 2.1.0 those of
\* the scene name, the text, the feature name and the user
CsvRow(v, sceneName, c) ==
  LET Esc(x) == IF v = "2.0.0" THEN x ELSE escapeCsvValue(x)
  IN Join(<< InQuotes(Esc(sceneName)),
             InQuotes(escapeCsvValue(c.text)),
             ToFixed6(c.position_x),
             ToFixed6(c.position_y),
             ToFixed6(c.position_z),
             InQuotes(Esc(FeatureOrEmpty(c.featureName))),
             InQuotes(c.timestamp),
             InQuotes(c.id),
             InQuotes(Esc(c.user)) >>, <<",">>)

RECURSIVE CsvRows(_, _)
CsvRows(v, m) ==
  IF m = <<>> THEN <<>>
  ELSE LET RowOf(c) == CsvRow(v, Head(m).key, c)
       IN [i \in 1..Len(Head(m).list) |-> RowOf(Head(m).list[i])] \o CsvRows(v, Tail(m))

CsvExportable(d) ==
  \A i \in 1..Len(AllComments(d.comments)) :
    LET c == AllComments(d.comments)[i]
    IN CanToFixed(c.position_x) /\ CanToFixed(c.position_y) /\ CanToFixed(c.position_z)

\* a TypeError inside exportCSV propagates in 2.0.0; in 2.1.0 safeExecute
\* returns the fallback text 'Error'
exportCSV(v, d) ==
  IF ~NoComments(d) /\ CsvExportable(d)
  THEN RetString(Join(<<CsvHeader>> \o CsvRows(v, d.comments), <<"\n">>))
  ELSE IF v = "2.0.0" THEN RetThrow("TypeError")
  ELSE RetString(<<"E", "r", "r", "o", "r">>)

HasChar(s, ch) == \E i \in 1..Len(s) : s[i] = ch

FirstIndexOf(s, ch) ==
  CHOOSE i \in 1..Len(s) : s[i] = ch /\ \A j \in 1..(i - 1) : s[j] # ch

RECURSIVE Split(_, _)
\* String.prototype.split on a one-character separator
Split(s, sep) ==
  IF ~HasChar(s, sep) THEN <<s>>
  ELSE <<SubSeq(s, 1, FirstIndexOf(s, sep) - 1)>>
       \o Split(SubSeq(s, FirstIndexOf(s, sep) + 1, Len(s)), sep)

\* line.trim() is a non-empty string
NotBlank(line) == \E i \in 1..Len(line) : line[i] \notin WhiteSpace

\* one pass of the for loop of _parseCSVLine over the character char
ParseStep(state, char) ==
  IF char = Quote THEN [state EXCEPT !.inQuotes = ~@]
  ELSE IF char = "," /\ ~state.inQuotes
  THEN [state EXCEPT !.result = Append(@, state.current), !.current = <<>>]
  ELSE [state EXCEPT !.current = Append(@, char)]

RECURSIVE ParseLoop(_, _)
\* the loop continued over rest once the state reached so far is known
ParseOn(rest, state) ==
  IF state.inQuotes \in BOOLEAN THEN ParseLoop(rest, state) ELSE state

\* the for loop of _parseCSVLine run over line from state; the line is
\* consumed left to right, by halves
ParseLoop(line, state) ==
  IF line = <<>> THEN state
  ELSE IF Len(line) = 1 THEN ParseStep(state, line[1])
  ELSE ParseOn(SubSeq(line, Len(line) \div 2 + 1, Len(line)),
               ParseLoop(SubSeq(line, 1, Len(line) \div 2), state))

parseCSVLine(line) ==
  LET end == ParseLoop(line, [result |-> <<>>, current |-> <<>>, inQuotes |-> FALSE])
  IN Append(end.result, end.current)

\* values[5] || null
StrOrNull(s) == IF s = <<>> THEN Null ELSE Str(s)

CsvComment(values) ==
  [id |-> values[8], text |-> values[2],
   position_x |-> ParseFloat(values[3]), position_y |-> ParseFloat(values[4]),
   position_z |-> ParseFloat(values[5]), featureName |-> StrOrNull(values[6]),
   timestamp |-> values[7], user |-> values[9], szene |-> values[1]]

\* the body of the for loop of importCSV: a line with fewer than nine
\* values is skipped
CsvPush(m, values) ==
  IF Len(values) >= 9
  THEN PutList(m, values[1], Append(ListOrEmpty(m, values[1]), CsvComment(values)))
  ELSE m

RECURSIVE CsvFold(_, _)
\* the for loop of importCSV over the data lines, starting from the map m
CsvFold(lines, m) ==
  IF lines = <<>> THEN m
  ELSE CsvFold(Tail(lines), CsvPush(m, parseCSVLine(Head(lines))))

\* an import whose loop adds the rows to the scenes already present
importCSVMerging(v, st, csvData, fail) ==
  LET lines == SelectSeq(Split(csvData, "\n"), NotBlank)
  IN IF Len(lines) < 2
     THEN Thrown(v, st, "CSV must have at least a header and one data row")
     ELSE
       LET filled == Store([st.data EXCEPT !.comments = CsvFold(Tail(lines), @),
                                            !.shape = "map"],
                           st.storage, st.cache)
           saved == saveToStorage(filled, fail)
       IN Out(Store(saved.st.data, saved.st.storage, <<>>), RetTrue, saved.write)

importCSV(v, st, csvData, fail) ==
  LET lines == SelectSeq(Split(csvData, "\n"), NotBlank)
  IN IF Len(lines) < 2
     THEN Thrown(v, st, "CSV must have at least a header and one data row")
     ELSE
       LET filled == Store([st.data EXCEPT !.comments = CsvFold(Tail(lines), <<>>),
                                            !.shape = "map"],
                           st.storage, st.cache)
           saved == saveToStorage(filled, fail)
       IN IF v = "2.0.0" THEN Out(saved.st, RetTrue, saved.write)
          ELSE Out(Store(saved.st.data, saved.st.storage, <<>>), RetTrue, saved.write)

\* ----------------------------------------------------- CommentsManager
\* String.prototype.trim
RECURSIVE TrimEnd(_)
TrimEnd(s) ==
  IF s # <<>> /\ s[Len(s)] \in WhiteSpace THEN TrimEnd(SubSeq(s, 1, Len(s) - 1)) ELSE s

\* a trim that leaves the string as it is
TrimNothing(s) == s

Trim(s) == TrimEnd(TrimStart(s))

\* the fields of a CommentsManager after init(viewer): currentGroup is <<>>
\* for null and <<name>> for a loaded scene group, pendingPosition is <<>>
\* for null and <<position>> for a Cartesian3, currentEditId is <<>> for null
\* and <<id>> otherwise.  billboards and labels are the two primitive
\* collections the manager put into the scene graph, in insertion order;
\* timers are the callbacks handed to setTimeout that have not run yet;
\* reads are the files handleFileImport handed to the browser to read whose
\* text has not arrived yet.
Manager(userName, currentGroup, isCommentMode, pendingPosition, pendingFeature) ==
  [userName |-> userName, currentGroup |-> currentGroup,
   isCommentMode |-> isCommentMode, pendingPosition |-> pendingPosition,
   pendingFeature |-> pendingFeature,
   currentSceneComments |-> <<>>, currentEditId |-> <<>>,
   billboards |-> <<>>, labels |-> <<>>, timers |-> <<>>, reads |-> <<>>]

\* scale: 1.0 of a billboard, in units of 10^-4
ScaleOne == 10000

\* the billboard addCommentVisual adds: comment_<id> is kept as the id
Billboard(comment) == [id |-> comment.id, scale |-> ScaleOne]

\* comment.text.length > 30 ? comment.text.substring(0, 30) + '...' : comment.text
PreviewText(text) ==
  IF Len(text) > 30 THEN SubSeq(text, 1, 30) \o <<".", ".", ".">> ELSE text

\* the label addCommentVisual adds: comment_label_<id> is kept as the id
Label(comment) == [id |-> comment.id, text |-> PreviewText(comment.text), show |-> FALSE]

addCommentVisual(m, comment) ==
  [m EXCEPT !.billboards = Append(@, Billboard(comment)),
            !.labels = Append(@, Label(comment))]

\* removeAll() destroys the primitives: a timer callback that still holds
\* one of them changes nothing that is in the scene graph, so the timers go
\* with them
refreshCommentVisuals(m) ==
  [m EXCEPT !.billboards = [i \in 1..Len(m.currentSceneComments) |->
                              Billboard(m.currentSceneComments[i])],
            !.labels = [i \in 1..Len(m.currentSceneComments) |->
                          Label(m.currentSceneComments[i])],
            !.timers = <<>>]

\* what a handler of the manager leaves behind: the manager, the kind of
\* toast it showed ("none" when it showed none), the outcome of its call of
\* the store, and how often it called api.saveComment
Handled(m, toast, out, saves) == [m |-> m, toast |-> toast, out |-> out, saves |-> saves]

\* 2.0.0 keeps the name as typed; 2.1.0 stores userName ? userName.trim() : ''
setUserName(v, m, userName) ==
  [m EXCEPT !.userName = IF v = "2.0.0" THEN userName ELSE Trim(userName)]

setCurrentGroup(m, group) == [m EXCEPT !.currentGroup = group]

\* an activation that does not look at the user name or the scene
enterCommentModeUnchecked(m, st) ==
  Handled([m EXCEPT !.isCommentMode = TRUE], "success", Out(st, RetUndefined, "none"), 0)

enterCommentMode(m, st) ==
  IF m.userName = <<>> THEN Handled(m, "warning", Out(st, RetUndefined, "none"), 0)
  ELSE IF m.currentGroup = <<>> THEN Handled(m, "warning", Out(st, RetUndefined, "none"), 0)
  ELSE Handled([m EXCEPT !.isCommentMode = TRUE], "success",
               Out(st, RetUndefined, "none"), 0)

exitCommentMode(m) ==
  [m EXCEPT !.isCommentMode = FALSE, !.pendingPosition = <<>>, !.pendingFeature = Null]

\* what scene.pick and the position picks give for a click: whether a 3D
\* tile feature was hit, the position resolved (<<>> when none), and the
\* value of the feature's name property
Pick(feature, cartesian, name) == [feature |-> feature, cartesian |-> cartesian, name |-> name]

Picks ==
  { Pick(FALSE, <<>>, Null), Pick(FALSE, <<PosFine>>, Null),
    Pick(TRUE, <<PosExact>>, Str(FeatureF)) }

\* 2.0.0: pickedFeature.getProperty("name") || "Feature"; 2.1.0:
\* _getFeatureName, the property or null
PickedFeatureName(v, pick) ==
  IF ~pick.feature THEN Null
  ELSE IF v = "2.0.0" /\ pick.name = Null THEN Str(<<"F", "e", "a", "t", "u", "r", "e">>)
  ELSE pick.name

\* without a position 2.0.0 warns and 2.1.0 does nothing; with one, both
\* keep it and the feature name, and 2.1.0 shows a success toast
handleCommentModeClick(v, m, st, pick) ==
  IF pick.cartesian = <<>>
  THEN Handled(m, IF v = "2.0.0" THEN "warning" ELSE "none",
               Out(st, RetUndefined, "none"), 0)
  ELSE Handled([m EXCEPT !.pendingPosition = pick.cartesian,
                         !.pendingFeature = PickedFeatureName(v, pick)],
               IF v = "2.0.0" THEN "none" ELSE "success",
               Out(st, RetUndefined, "none"), 0)

\* CommentsManager.addComment with inputValue in the comment text box
addComment(v, m, st, ms, counter, inputValue, fail) ==
  LET text == Trim(inputValue)
      quiet == Out(st, RetUndefined, "none")
      saved == saveComment(v, st, ms, counter, m.currentGroup[1], text,
                           m.pendingPosition[1], m.pendingFeature, m.userName, fail)
  IN IF v = "2.0.0"
     THEN IF m.pendingPosition = <<>> THEN Handled(m, "none", quiet, 0)
          ELSE IF text = <<>> THEN Handled(m, "warning", quiet, 0)
          ELSE IF m.userName = <<>> THEN Handled(m, "warning", quiet, 0)
          ELSE IF m.currentGroup = <<>> THEN Handled(m, "warning", quiet, 0)
          ELSE IF saved.ret.k = "throw" THEN Handled(m, "error", saved, 1)
          ELSE Handled(exitCommentMode(addCommentVisual(
                         [m EXCEPT !.currentSceneComments = Append(@, saved.ret.rec[1])],
                         saved.ret.rec[1])),
                       "success", saved, 1)
     ELSE IF text = <<>> THEN Handled(m, "warning", quiet, 0)
          ELSE IF m.pendingPosition = <<>> THEN Handled(m, "warning", quiet, 0)
          ELSE IF m.currentGroup = <<>> THEN Handled(m, "error", quiet, 0)
          ELSE IF saved.ret.k = "record"
          THEN Handled([addCommentVisual(
                          [m EXCEPT !.currentSceneComments = Append(@, saved.ret.rec[1])],
                          saved.ret.rec[1])
                        EXCEPT !.pendingPosition = <<>>, !.pendingFeature = Null],
                       "success", saved, 1)
          ELSE Handled(m, "error", saved, 1)

\* CommentsManager.cancelComment of 2.1.0: the pending pick is dropped and
\* isCommentMode is left as it is
cancelComment(m, st) ==
  Handled([m EXCEPT !.pendingPosition = <<>>, !.pendingFeature = Null],
          "info", Out(st, RetUndefined, "none"), 0)

\* CesiumApp.hidePanel("comments"): the panel is faded out and hidden; no
\* call of the manager
hidePanel(m) == m

\* CesiumApp.hideAllPanels: hidePanel for each of the three panels
hideAllPanels(m) == hidePanel(m)

\* CesiumApp.handleEscapeKey
handleEscapeKey(m) ==
  IF m.isCommentMode THEN exitCommentMode(m) ELSE hideAllPanels(m)

\* a reset that leaves the comment mode as it is
resetSceneStateKeepingMode(m) == setCurrentGroup(hideAllPanels(m), <<>>)

\* CesiumApp.resetSceneState, the part of clearScene that reaches the manager
resetSceneState(m) == exitCommentMode(setCurrentGroup(hideAllPanels(m), <<>>))

\* ----------------------------------------------------------- CSV files
\* a comment no store of the model holds: id "z", scene B
ForeignComment ==
  [id |-> <<"z">>, text |-> TextPlain,
   position_x |-> PosExact.x, position_y |-> PosExact.y,
   position_z |-> PosExact.z, featureName |-> Null,
   timestamp |-> ToISOString(0), user |-> UserAnna, szene |-> SceneB]

\* another one in the same scene: id "y"
SecondComment == [ForeignComment EXCEPT !.id = <<"y">>, !.text = TextQuoted]

\* a data row that ends after its second column
ShortRow == Join(<<InQuotes(SceneB), InQuotes(TextPlain)>>, <<",">>)

\* a data row of nine columns whose text column is empty and whose
\* Position_X column reads abc
BlankRow ==
  Join(<< InQuotes(SceneB), InQuotes(<<>>), <<"a", "b", "c">>,
          ToFixed6(PosExact.y), ToFixed6(PosExact.z), InQuotes(<<>>),
          InQuotes(ToISOString(0)), InQuotes(<<"z">>), InQuotes(UserAnna) >>,
       <<",">>)

CsvSources == {"roundtrip", "empty", "headeronly", "foreign", "truncated", "blankfields"}

\* the prepared files, as each version's row format writes them: the header
\* row followed by the row of ForeignComment, by that row and ShortRow, by
\* BlankRow, or by the rows of ForeignComment and SecondComment
CsvFiles ==
  [v \in {"2.0.0", "2.1.0"} |->
    [foreign |-> Join(<<CsvHeader, CsvRow(v, SceneB, ForeignComment)>>, <<"\n">>),
     truncated |->
       Join(<<CsvHeader, CsvRow(v, SceneB, ForeignComment), ShortRow>>, <<"\n">>),
     blankfields |-> Join(<<CsvHeader, BlankRow>>, <<"\n">>),
     paired |->
       Join(<<CsvHeader, CsvRow(v, SceneB, ForeignComment),
              CsvRow(v, SceneB, SecondComment)>>, <<"\n">>)]]

\* the text handed to importCSV: what exportCSV() returns for the Document
\* d, the empty text, the header row alone, or the header row followed by
\* the row of ForeignComment, by that row and ShortRow, or by BlankRow
CsvInput(v, d, src) ==
  CASE src = "roundtrip" -> exportCSV(v, d).str
    [] src = "empty" -> <<>>
    [] src = "headeronly" -> CsvHeader
    [] src = "foreign" -> CsvFiles[v].foreign
    [] src = "truncated" -> CsvFiles[v].truncated
    [] OTHER -> CsvFiles[v].blankfields

\* ----------------------------------------------------- comment markers
\* a handler that returned or caught its error: nothing is thrown on
Caught(out) == Out(out.st, RetUndefined, out.write)

\* CommentsManager.loadCommentsFromStorage of 2.0.0: without a scene the
\* list is emptied and the markers are left alone; an error of the store is
\* caught, and the list emptied
loadCommentsFromStorage(m, st) ==
  IF m.currentGroup = <<>>
  THEN Handled([m EXCEPT !.currentSceneComments = <<>>], "none",
               Out(st, RetUndefined, "none"), 0)
  ELSE LET loaded == loadComments("2.0.0", st, m.currentGroup[1])
       IN IF loaded.ret.k = "throw"
          THEN Handled([m EXCEPT !.currentSceneComments = <<>>], "error", Caught(loaded), 0)
          ELSE Handled(refreshCommentVisuals(
                         [m EXCEPT !.currentSceneComments = loaded.ret.list]),
                       IF loaded.ret.list = <<>> THEN "none" ELSE "success",
                       Caught(loaded), 0)

\* CommentsManager.loadSceneComments of 2.1.0
loadSceneComments(m, st) ==
  IF m.currentGroup = <<>>
  THEN Handled([m EXCEPT !.currentSceneComments = <<>>], "none",
               Out(st, RetUndefined, "none"), 0)
  ELSE LET loaded == loadComments("2.1.0", st, m.currentGroup[1])
       IN Handled(refreshCommentVisuals([m EXCEPT !.currentSceneComments = loaded.ret.list]),
                  "none", Caught(loaded), 0)

\* CesiumApp.loadScene as far as it reaches the manager: clearScene,
\* setCurrentGroup(group), and at the end comments.loadCommentsFromStorage(),
\* a method the 2.1.0 manager does not have: the TypeError of that call is
\* caught by loadScene and shown as an error
loadScene(v, m, st, group) ==
  LET cleared == setCurrentGroup(resetSceneState(m), <<group>>)
  IN IF v = "2.0.0" THEN loadCommentsFromStorage(cleared, st)
     ELSE Handled(cleared, "error", Out(st, RetUndefined, "none"), 0)

\* index of the element Array.prototype.find returns, in a list that has one
HasCurrent(m, commentId) == HasId(m.currentSceneComments, commentId)

openEditComment(v, m, st, commentId) ==
  IF HasCurrent(m, commentId)
  THEN Handled([m EXCEPT !.currentEditId = <<commentId>>], "none",
               Out(st, RetUndefined, "none"), 0)
  ELSE Handled(m, IF v = "2.0.0" THEN "none" ELSE "error", Out(st, RetUndefined, "none"), 0)

closeEditComment(m) == [m EXCEPT !.currentEditId = <<>>]

\* comment.text = newText; comment.timestamp = new Date().toISOString() on
\* the element of currentSceneComments that find returns
EditCurrent(m, ms, commentId, newText) ==
  IF HasCurrent(m, commentId)
  THEN [m EXCEPT !.currentSceneComments[FindIndex(m.currentSceneComments, commentId)] =
                   [@ EXCEPT !.text = newText, !.timestamp = ToISOString(ms)]]
  ELSE m

\* CommentsManager.editComment of 2.0.0
editComment(m, st, ms, commentId, newText, fail) ==
  IF m.currentGroup = <<>> THEN Handled(m, "warning", Out(st, RetUndefined, "none"), 0)
  ELSE LET updated == updateComment("2.0.0", st, ms, commentId, newText,
                                    m.currentGroup[1], fail)
       IN IF updated.ret.k = "throw" THEN Handled(m, "error", Caught(updated), 0)
          ELSE Handled(refreshCommentVisuals(EditCurrent(m, ms, commentId, newText)),
                       "success", Caught(updated), 0)

\* CommentsManager.saveEditComment with inputValue in the edit box: 2.0.0
\* goes through editComment and closes the dialog whatever came of it;
\* 2.1.0 calls the store itself, does not touch the markers, and reads
\* this.currentGroup.name without looking at currentGroup
saveEditComment(v, m, st, ms, inputValue, fail) ==
  LET newText == Trim(inputValue)
      quiet == Out(st, RetUndefined, "none")
  IN IF m.currentEditId = <<>> THEN Handled(m, "none", quiet, 0)
     ELSE IF newText = <<>> THEN Handled(m, "warning", quiet, 0)
     ELSE IF v = "2.0.0"
     THEN LET edited == editComment(m, st, ms, m.currentEditId[1], newText, fail)
          IN Handled(closeEditComment(edited.m), edited.toast, edited.out, 0)
     ELSE IF m.currentGroup = <<>> THEN Handled(m, "none", Out(st, RetThrow("TypeError"), "none"), 0)
     ELSE LET updated == updateComment("2.1.0", st, ms, m.currentEditId[1], newText,
                                       m.currentGroup[1], fail)
          IN IF updated.ret.k = "true"
             THEN Handled(closeEditComment(EditCurrent(m, ms, m.currentEditId[1], newText)),
                          "success", Caught(updated), 0)
             ELSE Handled(m, "error", Caught(updated), 0)

\* this.currentSceneComments.filter(c => c.id !== commentId)
WithoutId(list, commentId) ==
  LET KeepOther(c) == c.id # commentId IN SelectSeq(list, KeepOther)

\* a deleteComment that filters the list and leaves the markers alone
managerDeleteCommentKeepingMarkers(v, m, st, commentId, fail) ==
  IF m.currentGroup = <<>>
  THEN IF v = "2.0.0" THEN Handled(m, "warning", Out(st, RetUndefined, "none"), 0)
       ELSE Handled(m, "none", Out(st, RetThrow("TypeError"), "none"), 0)
  ELSE LET deleted == deleteComment(v, st, commentId, m.currentGroup[1], fail)
           shown == [m EXCEPT !.currentSceneComments = WithoutId(@, commentId)]
       IN IF v = "2.0.0"
          THEN IF deleted.ret.k = "throw" THEN Handled(m, "error", Caught(deleted), 0)
               ELSE Handled(shown, "success", Caught(deleted), 0)
          ELSE IF deleted.ret.k = "true" THEN Handled(shown, "success", Caught(deleted), 0)
               ELSE Handled(m, "error", Caught(deleted), 0)

\* CommentsManager.deleteComment once confirm() was answered with yes
managerDeleteComment(v, m, st, commentId, fail) ==
  IF m.currentGroup = <<>>
  THEN IF v = "2.0.0" THEN Handled(m, "warning", Out(st, RetUndefined, "none"), 0)
       ELSE Handled(m, "none", Out(st, RetThrow("TypeError"), "none"), 0)
  ELSE LET deleted == deleteComment(v, st, commentId, m.currentGroup[1], fail)
           shown == refreshCommentVisuals(
                      [m EXCEPT !.currentSceneComments = WithoutId(@, commentId)])
       IN IF v = "2.0.0"
          THEN IF deleted.ret.k = "throw" THEN Handled(m, "error", Caught(deleted), 0)
               ELSE Handled(shown, "success", Caught(deleted), 0)
          ELSE IF deleted.ret.k = "true" THEN Handled(shown, "success", Caught(deleted), 0)
               ELSE Handled(m, "error", Caught(deleted), 0)

\* CommentsManager.handleFileImport of a .json file (json = TRUE) or a .csv
\* file: 2.0.0 reloads the list unless the import threw; 2.1.0 does not look
\* at what the import returned
handleFileImport(v, m, st, json, content, fail) ==
  LET imported == IF json THEN importData(v, st, content, fail)
                  ELSE importCSV(v, st, content, fail)
      reloaded == IF v = "2.0.0" THEN loadCommentsFromStorage(m, imported.st)
                  ELSE loadSceneComments(m, imported.st)
  IN IF imported.ret.k = "throw" THEN Handled(m, "error", Caught(imported), 0)
     ELSE Handled(reloaded.m, "success",
                  Out(reloaded.out.st, RetUndefined, imported.write), 0)

\* CommentsManager.clearAllData once confirm() was answered with yes
managerClearAllData(v, m, st, fail) ==
  LET cleared == clearAllData(v, st, fail)
      reloaded == loadCommentsFromStorage(m, cleared.st)
  IN IF v = "2.0.0"
     THEN Handled(reloaded.m, "success",
                  Out(reloaded.out.st, RetUndefined, cleared.write), 0)
     ELSE Handled(refreshCommentVisuals([m EXCEPT !.currentSceneComments = <<>>]),
                  "success", Caught(cleared), 0)

\* -------------------------------------------------------- state machine
Versions == {"2.0.0", "2.1.0"}

St == Store(data, storage, cache)

NoCall == [op |-> "constructor", scene |-> <<>>, id |-> <<>>, text |-> <<>>,
           position |-> <<>>, featureName |-> Null, user |-> <<>>,
           src |-> "", write |-> "none", ret |-> RetUndefined,
           toast |-> "none", saves |-> 0]

\* an id no comment carries
MissingId == <<"x">>

IdsOf(d) == {AllComments(d.comments)[i].id : i \in 1..Len(AllComments(d.comments))}

\* the store fields after a call, the call's record, and the store before
Apply(out, call) ==
  /\ data' = out.st.data
  /\ storage' = out.st.storage
  /\ cache' = out.st.cache
  /\ last' = [call EXCEPT !.ret = out.ret, !.write = out.write]
  /\ pre' = St
  /\ calls' = calls + 1

\* the Document an earlier session left in localStorage: one comment in
\* scene A, created at millisecond 0
SeedComment(v) ==
  [id |-> NewId(v, 0, 0), text |-> TextPlain,
   position_x |-> PosExact.x, position_y |-> PosExact.y,
   position_z |-> PosExact.z, featureName |-> Null,
   timestamp |-> ToISOString(0), user |-> UserAnna, szene |-> SceneA]

SeedDocument(v) ==
  [comments |-> <<[key |-> SceneA, list |-> <<SeedComment(v)>>]>>,
   metadata |-> [version |-> StorageVersion(v)], shape |-> "map"]

\* what localStorage can hold under storageKey when the page loads: nothing,
\* the Document an earlier session left, text that is not JSON, the JSON
\* text {"metadata": {...}} of an object without `comments', and the text
\* {"comments": [], "metadata": {...}} that an importData of such a file
\* has written
StoredItems(v) ==
  { NoItem, Item(Stringify(SeedDocument(v))), JsonGarbage,
    JsonOddComments(v, "missing"), JsonOddComments(v, "array") }

\* new LocalCommentsAPI()
Init ==
  /\ version \in Versions
  /\ now = 1
  /\ idCounter = 1
  /\ storage \in StoredItems(version)
  /\ data = loadFromStorage(version, storage)
  /\ cache = <<>>
  /\ last = NoCall
  /\ pre = Store(data, storage, cache)
  /\ calls = 0
  /\ ui = Manager(<<>>, <<>>, FALSE, <<>>, Null)
  /\ uiPre = ui

\* a millisecond passes
Tick ==
  /\ now < 1 + MaxTime
  /\ now' = now + 1
  /\ UNCHANGED <<version, idCounter, data, storage, cache, last, pre, calls, ui, uiPre>>

AddComment ==
  /\ calls < MaxCalls
  /\ \E sceneName \in Scenes, in \in CommentInputs, fail \in BOOLEAN :
       Apply(saveComment(version, St, now, idCounter, sceneName,
                         in[1], in[2], in[3], UserAnna, fail),
             [NoCall EXCEPT !.op = "saveComment", !.scene = sceneName,
                            !.text = in[1], !.position = <<in[2]>>,
                            !.featureName = in[3], !.user = UserAnna])
  /\ idCounter' = IF version = "2.1.0" THEN idCounter + 1 ELSE idCounter
  /\ UNCHANGED <<version, now, ui, uiPre>>

UpdateComment ==
  /\ calls < MaxCalls
  /\ \E sceneName \in Scenes, commentId \in IdsOf(data) \cup {MissingId},
        fail \in BOOLEAN :
       Apply(updateComment(version, St, now, commentId, TextEdited, sceneName, fail),
             [NoCall EXCEPT !.op = "updateComment", !.scene = sceneName,
                            !.id = commentId, !.text = TextEdited])
  /\ UNCHANGED <<version, now, idCounter, ui, uiPre>>

DeleteComment ==
  /\ calls < MaxCalls
  /\ \E sceneName \in Scenes, commentId \in IdsOf(data) \cup {MissingId},
        fail \in BOOLEAN :
       Apply(deleteComment(version, St, commentId, sceneName, fail),
             [NoCall EXCEPT !.op = "deleteComment", !.scene = sceneName,
                            !.id = commentId])
  /\ UNCHANGED <<version, now, idCounter, ui, uiPre>>

LoadComments ==
  /\ calls < MaxCalls
  /\ \E sceneName \in Scenes :
       Apply(loadComments(version, St, sceneName),
             [NoCall EXCEPT !.op = "loadComments", !.scene = sceneName])
  /\ UNCHANGED <<version, now, idCounter, ui, uiPre>>

\* importData of the text exportJSON() has just produced, of an object
\* whose `comments' is not a map, or of text that is not JSON
ImportData ==
  /\ calls < MaxCalls
  /\ \E src \in {"roundtrip", "garbage"} \cup OddShapes, fail \in BOOLEAN :
       LET jsonData == CASE src = "roundtrip" -> exportJSON(data)
                         [] src \in OddShapes -> JsonOddComments(version, src)
                         [] OTHER -> JsonGarbage
       IN Apply(importData(version, St, jsonData, fail),
                [NoCall EXCEPT !.op = "importData", !.src = src])
  /\ UNCHANGED <<version, now, idCounter, ui, uiPre>>

\* importCSV of the text exportCSV() has just produced, or of one of the
\* prepared files
ImportCSV ==
  /\ calls < MaxCalls
  /\ \E src \in CsvSources, fail \in BOOLEAN :
       /\ src = "roundtrip" => exportCSV(version, data).k = "string"
       /\ Apply(importCSV(version, St, CsvInput(version, data, src), fail),
                [NoCall EXCEPT !.op = "importCSV", !.src = src])
  /\ UNCHANGED <<version, now, idCounter, ui, uiPre>>

ClearAllData ==
  /\ calls < MaxCalls
  /\ \E fail \in BOOLEAN :
       Apply(clearAllData(version, St, fail),
             [NoCall EXCEPT !.op = "clearAllData"])
  /\ UNCHANGED <<version, now, idCounter, ui, uiPre>>

Next ==
  \/ Tick
  \/ AddComment
  \/ UpdateComment
  \/ DeleteComment
  \/ LoadComments
  \/ ImportData
  \/ ImportCSV
  \/ ClearAllData

Spec == Init /\ [][Next]_vars

\* the store as a CSV exchange uses it: comments are added and listed, and
\* CSV files are imported
CsvExchangeNext ==
  \/ AddComment
  \/ LoadComments
  \/ ImportCSV

CsvExchangeSpec == Init /\ [][CsvExchangeNext]_vars

\* ------------------------------------------------- placement workflow
\* names typed into the user name field, scene groups set by the
\* application (<<>> is null), and texts typed into the comment box
NameInputs == {<<>>, <<" ">>, UserAnna}
GroupInputs == {<<>>, <<SceneA>>}
TextInputs == {<<>>, <<" ">>, TextPlain}

\* the manager and store fields after a handler of the manager returned;
\* n is what the handler counts against MaxCalls
ApplyCounted(h, call, n) ==
  /\ data' = h.out.st.data
  /\ storage' = h.out.st.storage
  /\ cache' = h.out.st.cache
  /\ last' = [call EXCEPT !.ret = h.out.ret, !.write = h.out.write,
                          !.toast = h.toast, !.saves = h.saves]
  /\ pre' = St
  /\ calls' = calls + n
  /\ ui' = h.m
  /\ uiPre' = ui

ApplyHandled(h, call) == ApplyCounted(h, call, h.saves)

Quiet(m) == Handled(m, "none", Out(St, RetUndefined, "none"), 0)

SetUserName ==
  /\ \E userName \in NameInputs :
       ApplyHandled(Quiet(setUserName(version, ui, userName)),
                    [NoCall EXCEPT !.op = "setUserName", !.user = userName])
  /\ UNCHANGED <<version, now, idCounter>>

SetCurrentGroup ==
  /\ \E group \in GroupInputs :
       ApplyHandled(Quiet(setCurrentGroup(ui, group)),
                    [NoCall EXCEPT !.op = "setCurrentGroup", !.scene = group])
  /\ UNCHANGED <<version, now, idCounter>>

EnterCommentMode ==
  /\ ApplyHandled(enterCommentMode(ui, St), [NoCall EXCEPT !.op = "enterCommentMode"])
  /\ UNCHANGED <<version, now, idCounter>>

ExitCommentMode ==
  /\ ApplyHandled(Quiet(exitCommentMode(ui)), [NoCall EXCEPT !.op = "exitCommentMode"])
  /\ UNCHANGED <<version, now, idCounter>>

\* the application hands a click to the manager only in comment mode
HandleCommentModeClick ==
  /\ ui.isCommentMode
  /\ \E pick \in Picks :
       ApplyHandled(handleCommentModeClick(version, ui, St, pick),
                    [NoCall EXCEPT !.op = "handleCommentModeClick",
                                   !.position = pick.cartesian,
                                   !.featureName = pick.name])
  /\ UNCHANGED <<version, now, idCounter>>

\* the add button: CommentsManager.addComment
CommitComment ==
  /\ calls < MaxCalls
  /\ \E inputValue \in TextInputs, fail \in BOOLEAN :
       LET h == addComment(version, ui, St, now, idCounter, inputValue, fail)
       IN /\ ApplyHandled(h, [NoCall EXCEPT !.op = "addComment", !.text = inputValue])
          /\ idCounter' = IF version = "2.1.0" /\ h.saves = 1
                          THEN idCounter + 1 ELSE idCounter
  /\ UNCHANGED <<version, now>>

\* CommentsManager.cancelComment exists in 2.1.0 only
CancelComment ==
  /\ version = "2.1.0"
  /\ ApplyHandled(cancelComment(ui, St), [NoCall EXCEPT !.op = "cancelComment"])
  /\ UNCHANGED <<version, now, idCounter>>

\* the Escape key
HandleEscapeKey ==
  /\ ApplyHandled(Quiet(handleEscapeKey(ui)), [NoCall EXCEPT !.op = "handleEscapeKey"])
  /\ UNCHANGED <<version, now, idCounter>>

\* the close button of the comments panel, its keyboard shortcut, or the
\* panel manager of small screens
HidePanel ==
  /\ ApplyHandled(Quiet(hidePanel(ui)), [NoCall EXCEPT !.op = "hidePanel"])
  /\ UNCHANGED <<version, now, idCounter>>

\* the scene selector set to no scene: CesiumApp.clearScene
ClearScene ==
  /\ ApplyHandled(Quiet(resetSceneState(ui)), [NoCall EXCEPT !.op = "clearScene"])
  /\ UNCHANGED <<version, now, idCounter>>

WorkflowNext ==
  \/ SetUserName
  \/ SetCurrentGroup
  \/ EnterCommentMode
  \/ ExitCommentMode
  \/ HandleCommentModeClick
  \/ CommitComment

WorkflowSpec == Init /\ [][WorkflowNext]_vars

\* ------------------------------------------------ markers in the scene
\* more than thirty characters
TextLong ==
  << "a", "b", "c", "d", "e", "f", "g", "h", "i", "j",
     "k", "l", "m", "n", "o", "p", "q", "r", "s", "t",
     "u", "v", "w", "x", "y", "z", "a", "b", "c", "d", "e", "f" >>

\* texts typed into the edit box
EditInputs == {<<" ">>, TextEdited, TextLong}

\* the ids of the comments the comments panel lists, each with its edit,
\* delete and zoom buttons
ListedIds(m) == {m.currentSceneComments[i].id : i \in 1..Len(m.currentSceneComments)}

\* the scene selector set to a scene: CesiumApp.loadScene
LoadScene ==
  /\ \E group \in Scenes :
       ApplyHandled(loadScene(version, ui, St, group),
                    [NoCall EXCEPT !.op = "loadScene", !.scene = group])
  /\ UNCHANGED <<version, now, idCounter>>

OpenEditComment ==
  /\ \E commentId \in ListedIds(ui) :
       ApplyHandled(openEditComment(version, ui, St, commentId),
                    [NoCall EXCEPT !.op = "openEditComment", !.id = commentId])
  /\ UNCHANGED <<version, now, idCounter>>

\* the save button of the edit dialog
SaveEditComment ==
  /\ calls < MaxCalls
  /\ ui.currentEditId # <<>>
  /\ \E inputValue \in EditInputs, fail \in BOOLEAN :
       ApplyCounted(saveEditComment(version, ui, St, now, inputValue, fail),
                    [NoCall EXCEPT !.op = "saveEditComment", !.id = ui.currentEditId[1],
                                   !.text = inputValue], 1)
  /\ UNCHANGED <<version, now, idCounter>>

\* the delete button of a listed comment, confirmed
ManagerDeleteComment ==
  /\ calls < MaxCalls
  /\ \E commentId \in ListedIds(ui), fail \in BOOLEAN :
       ApplyCounted(managerDeleteComment(version, ui, St, commentId, fail),
                    [NoCall EXCEPT !.op = "manager.deleteComment", !.id = commentId], 1)
  /\ UNCHANGED <<version, now, idCounter>>

\* a file chosen in the import dialog: the JSON text exportJSON() gives for
\* the Document, or the prepared CSV file with the rows of ForeignComment
\* and SecondComment
HandleFileImport ==
  /\ calls < MaxCalls
  /\ \E json \in BOOLEAN, fail \in BOOLEAN :
       ApplyCounted(handleFileImport(version, ui, St, json,
                                     IF json THEN exportJSON(data)
                                     ELSE CsvFiles[version].paired, fail),
                    [NoCall EXCEPT !.op = "handleFileImport",
                                   !.src = IF json THEN "roundtrip" ELSE "paired"], 1)
  /\ UNCHANGED <<version, now, idCounter>>

\* the clear button, confirmed
ManagerClearAllData ==
  /\ calls < MaxCalls
  /\ \E fail \in BOOLEAN :
       ApplyCounted(managerClearAllData(version, ui, St, fail),
                    [NoCall EXCEPT !.op = "manager.clearAllData"], 1)
  /\ UNCHANGED <<version, now, idCounter>>

SceneNext ==
  \/ LoadScene
  \/ ClearScene
  \/ OpenEditComment
  \/ SaveEditComment
  \/ ManagerDeleteComment
  \/ HandleFileImport
  \/ ManagerClearAllData

SceneSpec == Init /\ [][SceneNext]_vars

\* the placement workflow with what can interrupt it: the cancel button,
\* the Escape key, the comments panel closed, the scene cleared or switched
InterruptionNext ==
  \/ SetUserName
  \/ SetCurrentGroup
  \/ EnterCommentMode
  \/ ExitCommentMode
  \/ HandleCommentModeClick
  \/ CancelComment
  \/ HandleEscapeKey
  \/ HidePanel
  \/ ClearScene
  \/ LoadScene

InterruptionSpec == Init /\ [][InterruptionNext]_vars

\* ------------------------------------------------ a session of the page
\* the place a click hits lies in the scene that is loaded
ScenePosition(sceneName) == IF sceneName = SceneA THEN PosExact ELSE PosFine

\* what a click can hit in the loaded scene: nothing, the ground, a feature
ScenePicks(group) ==
  { Pick(FALSE, <<>>, Null),
    Pick(FALSE, <<ScenePosition(group[1])>>, Null),
    Pick(TRUE, <<ScenePosition(group[1])>>, Str(FeatureF)) }

\* a click that reaches the manager although it is not in comment mode
handleLeftClickUnrouted(v, m, st, pick) == handleCommentModeClick(v, m, st, pick)

\* CesiumApp.handleLeftClick: in comment mode the click goes to the manager;
\* otherwise to the measurements, the hide mode or the feature info, none of
\* which touches the placement fields
handleLeftClick(v, m, st, pick) ==
  IF m.isCommentMode THEN handleCommentModeClick(v, m, st, pick)
  ELSE Handled(m, "none", Out(st, RetUndefined, "none"), 0)

\* the click handler exists from setupClickHandler() at the end of
\* loadScene until clearScene destroys it
HandleLeftClick ==
  /\ ui.currentGroup # <<>>
  /\ \E pick \in ScenePicks(ui.currentGroup) :
       ApplyHandled(handleLeftClick(version, ui, St, pick),
                    [NoCall EXCEPT !.op = "handleLeftClick",
                                   !.position = pick.cartesian,
                                   !.featureName = pick.name])
  /\ UNCHANGED <<version, now, idCounter>>

\* CesiumApp.loadUserSettings: the name an earlier session saved is handed
\* to the manager
loadUserSettings(v, m, savedUserName) ==
  IF savedUserName = <<>> THEN m ELSE setUserName(v, m, savedUserName)

\* the page of a user whose name is saved, started on storage that holds
\* nothing or the Document of an earlier session
SessionInit ==
  /\ version \in Versions
  /\ now = 1
  /\ idCounter = 1
  /\ storage \in {NoItem, Item(Stringify(SeedDocument(version)))}
  /\ data = loadFromStorage(version, storage)
  /\ cache = <<>>
  /\ last = NoCall
  /\ pre = Store(data, storage, cache)
  /\ calls = 0
  /\ ui = loadUserSettings(version, Manager(<<>>, <<>>, FALSE, <<>>, Null), UserAnna)
  /\ uiPre = ui

\* what the page lets its user do around the placement of a comment: load
\* and clear scenes, toggle and cancel the comment mode, click into the
\* scene, press the add button
SessionNext ==
  \/ LoadScene
  \/ ClearScene
  \/ EnterCommentMode
  \/ ExitCommentMode
  \/ HandleLeftClick
  \/ CommitComment

SessionSpec == SessionInit /\ [][SessionNext]_vars

\* ------------------------------------------------------ CSV round trip
\* importCSV(exportCSV()), the step a run of adds, updates and deletes ends
\* with: no store call follows it
RoundTripCSV ==
  /\ calls <= MaxCalls
  /\ exportCSV(version, data).k = "string"
  /\ \E fail \in BOOLEAN :
       /\ data' = importCSV(version, St, exportCSV(version, data).str, fail).st.data
       /\ storage' = importCSV(version, St, exportCSV(version, data).str, fail).st.storage
       /\ cache' = importCSV(version, St, exportCSV(version, data).str, fail).st.cache
       /\ last' = [NoCall EXCEPT
                     !.op = "importCSV(exportCSV())",
                     !.ret = importCSV(version, St, exportCSV(version, data).str, fail).ret,
                     !.write = importCSV(version, St, exportCSV(version, data).str, fail).write]
       /\ pre' = St
       /\ calls' = MaxCalls + 1
  /\ UNCHANGED <<version, now, idCounter, ui, uiPre>>

RoundTripNext ==
  \/ AddComment
  \/ UpdateComment
  \/ DeleteComment
  \/ RoundTripCSV

RoundTripSpec == SessionInit /\ [][RoundTripNext]_vars

\* ------------------------------------------------ imports in flight
\* how many files the browser reads at a time
MaxReads == 2

\* the files of the import dialog: the JSON file an earlier session exported
\* with one comment, and the CSV files with the row of ForeignComment and
\* with the rows of ForeignComment and SecondComment
ImportFiles == {"seed", "foreign", "paired"}

\* file.name.endsWith('.json')
IsJsonFile(file) == file = "seed"

\* the text the browser reads from the file
FileText(v, file) ==
  IF file = "seed" THEN exportJSON(SeedDocument(v)) ELSE CsvFiles[v][file]

\* reader.readAsText(file) and file.text(): the read is under way, and the
\* files read at the same time are marked as overlapped
readAsText(m, file) ==
  [m EXCEPT !.reads =
     Append([i \in 1..Len(@) |-> [@[i] EXCEPT !.overlapped = TRUE]],
            [file |-> file, overlapped |-> @ # <<>>])]

\* the reads under way without the one at place i
WithoutRead(m, i) ==
  [m EXCEPT !.reads = SubSeq(@, 1, i - 1) \o SubSeq(@, i + 1, Len(@))]

\* handleFileImport up to the point where it waits for the file's text
StartFileImport ==
  /\ Len(ui.reads) < MaxReads
  /\ calls + Len(ui.reads) < MaxCalls
  /\ \E file \in ImportFiles :
       ApplyHandled(Quiet(readAsText(ui, file)),
                    [NoCall EXCEPT !.op = "readAsText", !.src = file])
  /\ UNCHANGED <<version, now, idCounter>>

\* the text of one of the files has arrived, in whatever order the browser
\* finishes the reads: reader.onload of 2.0.0, the rest of the async
\* function of 2.1.0
FileReadCompletes ==
  /\ calls < MaxCalls
  /\ \E i \in 1..Len(ui.reads), fail \in BOOLEAN :
       ApplyCounted(handleFileImport(version, WithoutRead(ui, i), St,
                                     IsJsonFile(ui.reads[i].file),
                                     FileText(version, ui.reads[i].file), fail),
                    [NoCall EXCEPT !.op = "handleFileImport",
                                   !.src = ui.reads[i].file], 1)
  /\ UNCHANGED <<version, now, idCounter>>

\* imports, with the scene loaded, switched and cleared while files are read
ImportNext ==
  \/ LoadScene
  \/ ClearScene
  \/ StartFileImport
  \/ FileReadCompletes

ImportSpec == Init /\ [][ImportNext]_vars

\* ------------------------------------------------- highlight (2.0.0)
\* setTimeout delays, in tenths of a second
PulseDelay == 3
LabelDelay == 30

\* the number of pulses after which pulse() restores the scale
PulseSteps == 6

\* a pending setTimeout callback with what its closure holds: the billboard
\* or label it works on (by place in its collection) and, for pulse, the
\* pulseCount and originalScale of its pulseEntity call; due is the time
\* left before it runs
PulseTimer(index, pulseCount, originalScale) ==
  [kind |-> "pulse", index |-> index, pulseCount |-> pulseCount,
   originalScale |-> originalScale, due |-> PulseDelay]

LabelTimer(index) ==
  [kind |-> "label", index |-> index, pulseCount |-> 0, originalScale |-> 0,
   due |-> LabelDelay]

setTimeout(m, timer) == [m EXCEPT !.timers = Append(@, timer)]

\* originalScale * 1.5
Enlarged(originalScale) == (originalScale * 3) \div 2

\* the closure pulse of pulseEntity
pulse(m, index, pulseCount, originalScale) ==
  IF pulseCount < PulseSteps
  THEN setTimeout([m EXCEPT !.billboards[index].scale =
                              IF pulseCount % 2 = 0 THEN Enlarged(originalScale)
                              ELSE originalScale],
                  PulseTimer(index, pulseCount + 1, originalScale))
  ELSE [m EXCEPT !.billboards[index].scale = originalScale]

pulseEntity(m, index) == pulse(m, index, 0, m.billboards[index].scale)

showCommentLabel(m, commentId) ==
  IF HasId(m.labels, commentId)
  THEN setTimeout([m EXCEPT !.labels[FindIndex(m.labels, commentId)].show = TRUE],
                  LabelTimer(FindIndex(m.labels, commentId)))
  ELSE m

highlightComment(m, commentId) ==
  IF HasId(m.billboards, commentId)
  THEN showCommentLabel(pulseEntity(m, FindIndex(m.billboards, commentId)), commentId)
  ELSE m

\* the callback of a timer that has run out
timerCallback(m, timer) ==
  IF timer.kind = "pulse"
  THEN pulse(m, timer.index, timer.pulseCount, timer.originalScale)
  ELSE [m EXCEPT !.labels[timer.index].show = FALSE]

WithoutTimer(timers, i) == SubSeq(timers, 1, i - 1) \o SubSeq(timers, i + 1, Len(timers))

\* the flight of zoomToComment completed: between the click and this the
\* comment may have lost its marker
HighlightComment ==
  /\ version = "2.0.0"
  /\ calls < MaxCalls
  /\ \E commentId \in ListedIds(ui) \cup {MissingId} :
       ApplyCounted(Quiet(highlightComment(ui, commentId)),
                    [NoCall EXCEPT !.op = "highlightComment", !.id = commentId], 1)
  /\ UNCHANGED <<version, now, idCounter>>

\* the event loop runs the timer that ran out first
TimerFires ==
  /\ \E i \in 1..Len(ui.timers) :
       /\ ui.timers[i].due = 0
       /\ \A j \in 1..(i - 1) : ui.timers[j].due # 0
       /\ ApplyCounted(Quiet(timerCallback([ui EXCEPT !.timers = WithoutTimer(@, i)],
                                           ui.timers[i])),
                       [NoCall EXCEPT !.op = "timer", !.src = ui.timers[i].kind], 0)
  /\ UNCHANGED <<version, now, idCounter>>

\* a tenth of a second passes with no timer due
Elapse ==
  /\ ui.timers # <<>>
  /\ \A i \in 1..Len(ui.timers) : ui.timers[i].due > 0
  /\ ApplyCounted(Quiet([ui EXCEPT !.timers = [i \in 1..Len(ui.timers) |->
                                                 [ui.timers[i] EXCEPT !.due = @ - 1]]]),
                  [NoCall EXCEPT !.op = "elapse"], 0)
  /\ UNCHANGED <<version, now, idCounter>>

HighlightNext ==
  \/ LoadScene
  \/ HighlightComment
  \/ TimerFires
  \/ Elapse

HighlightSpec == Init /\ [][HighlightNext]_vars

\* ------------------------------------------------------------- claims
\* what getComments(sceneName) returns when called on the store st
GetComments(st, sceneName) == loadComments(version, st, sceneName).ret.list

\* the list loadComments computes from the Document on a cache miss
ComputedList(d, sceneName) == MaterializeAll(ListOrEmpty(d.comments, sceneName))

MutatingOps ==
  {"saveComment", "updateComment", "deleteComment", "importData", "importCSV",
   "clearAllData"}

\* the call returned a success value: the saved record, true, or (for
\* clearAllData, which returns nothing) returned normally
ReportedSuccess == last.ret.k \in {"record", "true", "undefined"}

\* the call told its caller that it failed: false, null or an exception
ReportedFailure == last.ret.k \in {"false", "null", "throw"}

\* a mutating call that reported success; a deleteComment counts when it
\* removed something
SuccessfulWrite ==
  /\ last.op \in MutatingOps
  /\ ReportedSuccess
  /\ last.op = "deleteComment" =>
       Len(AllComments(data.comments)) < Len(AllComments(pre.data.comments))

\* C1: after addComment, getComments(sceneKey) is the list it returned
\* before with exactly one record appended, which carries the arguments and
\* a non-null id and is the record addComment returned; the lists of the
\* other scenes are as before.
C1_AddThenGet ==
  (last.op = "saveComment" /\ last.ret.k = "record") =>
    LET r == last.ret.rec[1]
    IN /\ GetComments(St, last.scene) = GetComments(pre, last.scene) \o <<r>>
       /\ r.text = last.text
       /\ r.position = last.position[1]
       /\ r.featureName = last.featureName
       /\ r.user = last.user
       /\ r.szene = last.scene
       /\ r.id # <<>>
       /\ \A other \in Scenes \ {last.scene} :
            GetComments(St, other) = GetComments(pre, other)

\* C2: no two comments of the Document have the same id.
C2_UniqueIds ==
  LET all == AllComments(data.comments)
  IN \A i, j \in 1..Len(all) : i # j => all[i].id # all[j].id

\* C3: deleteComment of an id the existing scene does not hold reports that
\* nothing was removed, leaves the Document unchanged and does not write:
\* storage and cache are untouched.
C3_DeleteMissingId ==
  (/\ last.op = "deleteComment"
   /\ HasKey(pre.data.comments, last.scene)
   /\ ~HasId(GetList(pre.data.comments, last.scene), last.id)) =>
    /\ ReportedFailure
    /\ data = pre.data
    /\ last.write = "none"
    /\ storage = pre.storage
    /\ cache = pre.cache

\* C4: a successful updateComment leaves every field but the text of the
\* edited comment as it was, its creation time (the record's timestamp)
\* included, and leaves every other comment as it was.
C4_UpdateKeepsCreatedAt ==
  (last.op = "updateComment" /\ last.ret.k = "true") =>
    /\ Len(data.comments) = Len(pre.data.comments)
    /\ \A k \in 1..Len(data.comments) :
         LET before == pre.data.comments[k].list
             after == data.comments[k].list
         IN /\ data.comments[k].key = pre.data.comments[k].key
            /\ Len(after) = Len(before)
            /\ \A i \in 1..Len(before) :
                 IF data.comments[k].key = last.scene /\ before[i].id = last.id
                 THEN after[i] = [before[i] EXCEPT !.text = after[i].text]
                 ELSE after[i] = before[i]

\* the call was a lookup of something the Document does not hold:
\* updateComment on a scene without entry or an id the scene does not have,
\* deleteComment on a scene without entry
LookupMisses ==
  \/ /\ last.op = "updateComment"
     /\ \/ ~HasKey(pre.data.comments, last.scene)
        \/ ~HasId(GetList(pre.data.comments, last.scene), last.id)
  \/ /\ last.op = "deleteComment"
     /\ ~HasKey(pre.data.comments, last.scene)

C5_Witness ==
  /\ last.op = "updateComment"
  /\ HasKey(pre.data.comments, last.scene)
  /\ pre.data.comments # <<>>
  /\ ~HasId(GetList(pre.data.comments, last.scene), last.id)
  /\ pre.cache # <<>>

\* C6: when the durable write fails during addComment, updateComment,
\* deleteComment, importData or importCSV, the call reports a failure.
C6_WriteFailureReported ==
  (last.op \in MutatingOps \ {"clearAllData"} /\ last.write = "failed") =>
    ReportedFailure

\* C7: after a mutating call that reported success, localStorage holds the
\* serialization of the in-memory Document, and loading it gives that
\* Document.
C7_StorageMatchesMemory ==
  SuccessfulWrite =>
    /\ storage = Item(Stringify(data))
    /\ loadFromStorage(version, storage) = data

\* C8: after a mutating call that reported success the cache has no entry,
\* and at any time a cached list equals the list computed from the Document.
C8_CacheInvalidated ==
  /\ SuccessfulWrite => cache = <<>>
  /\ \A i \in 1..Len(cache) : cache[i].list = ComputedList(data, cache[i].key)

C9_Witness ==
  /\ last.op = "importData"
  /\ last.src = "roundtrip"
  /\ getStats(pre.data).totalComments = 2
  /\ getStats(data).scenes = 2

\* C11: importData of text that is not JSON, or of an object whose
\* `comments' is missing, null, a string, a number or an array, reports a
\* failure and leaves Document, storage and cache as they were.
C11_ImportRejectsBadShape ==
  (last.op = "importData" /\ last.src \in {"garbage"} \cup OddShapes) =>
    /\ ReportedFailure
    /\ data = pre.data
    /\ storage = pre.storage
    /\ cache = pre.cache

\* the non-blank lines of the text the last importCSV was given
ImportedLines == SelectSeq(Split(CsvInput(version, pre.data, last.src), "\n"), NotBlank)

\* C12: importCSV either turns every data row of the text into a comment of
\* the Document, or reports a failure and leaves Document and storage as
\* they were.
C12_CsvAllOrNothing ==
  last.op = "importCSV" =>
    \/ /\ ReportedSuccess
       /\ Len(AllComments(data.comments)) = Len(ImportedLines) - 1
    \/ /\ ReportedFailure
       /\ data = pre.data
       /\ storage = pre.storage

\* the ids of the comments of a Document, scene after scene
IdList(d) == [i \in 1..Len(AllComments(d.comments)) |-> AllComments(d.comments)[i].id]

C14_TextNeverEmpty ==
  /\ data.shape # "missing" =>
       \A i \in 1..Len(AllComments(data.comments)) :
         AllComments(data.comments)[i].text # <<>>
  /\ (storage.k = "json" /\ storage.doc[1].shape # "missing") =>
       \A i \in 1..Len(AllComments(storage.doc[1].comments)) :
         AllComments(storage.doc[1].comments)[i].text # <<>>

\* C15: every comment of the Document has three numbers, none of them NaN,
\* as its position.
C15_PositionsFinite ==
  data.shape # "missing" =>
    \A i \in 1..Len(AllComments(data.comments)) :
      LET c == AllComments(data.comments)[i]
      IN c.position_x.t = "num" /\ c.position_y.t = "num" /\ c.position_z.t = "num"

\* C16: after the constructor's load the Document has a `comments' map:
\* the fresh empty Document when localStorage held nothing or text that is
\* not JSON, and a Document with a `comments' map otherwise.
C16_LoadGivesDocument ==
  last.op = "constructor" =>
    /\ storage.k \in {"none", "garbage"} => data = getDefaultData(version)
    /\ data.shape = "map"

\* C17: the read cache never holds more entries than its capacity.
C17_CacheWithinCapacity == Len(cache) <= CacheMaxSize

\* the states of the placement workflow
Inactive(m) == ~m.isCommentMode
AwaitingPosition(m) == m.isCommentMode /\ m.pendingPosition = <<>>
PositionChosen(m) == m.isCommentMode /\ m.pendingPosition # <<>>

\* the handler left Document, storage and cache alone and wrote nothing
StoreUntouched ==
  /\ St = pre
  /\ last.write = "none"
  /\ last.saves = 0

\* C18: enterCommentMode from Inactive leads to AwaitingPosition when the
\* user name is non-empty and a scene group is set; otherwise the workflow
\* stays Inactive without a pending position and a warning is shown.  No
\* exception leaves the handler, and the store is not touched.
C18_ActivateNeedsNameAndScene ==
  (last.op = "enterCommentMode" /\ Inactive(uiPre)) =>
    /\ IF uiPre.userName # <<>> /\ uiPre.currentGroup # <<>>
       THEN AwaitingPosition(ui)
       ELSE /\ Inactive(ui)
            /\ ui.pendingPosition = <<>>
            /\ last.toast = "warning"
    /\ ui.userName = uiPre.userName
    /\ ui.currentGroup = uiPre.currentGroup
    /\ last.ret.k # "throw"
    /\ StoreUntouched

\* C18 witness: in a session that has committed a comment, an activation
\* with a user name but without a scene group has been refused
C18_Witness ==
  /\ last.op = "enterCommentMode"
  /\ Inactive(uiPre)
  /\ uiPre.userName = UserAnna
  /\ uiPre.currentGroup = <<>>
  /\ Inactive(ui)
  /\ last.toast = "warning"
  /\ calls >= 1

\* C19: addComment with a non-blank text in PositionChosen calls
\* api.saveComment once with the pending position and feature name, clears
\* both and leaves the workflow Inactive.
C19_CommitSavesAndDeactivates ==
  (last.op = "addComment" /\ PositionChosen(uiPre) /\ NotBlank(last.text)) =>
    /\ last.saves = 1
    /\ last.ret.k = "record"
    /\ last.ret.rec[1].position = uiPre.pendingPosition[1]
    /\ last.ret.rec[1].featureName = uiPre.pendingFeature
    /\ ui.pendingPosition = <<>>
    /\ ui.pendingFeature = Null
    /\ Inactive(ui)

\* C20: addComment with an empty or blank text in PositionChosen, and
\* addComment with any text in AwaitingPosition, leave the manager's fields
\* as they were and do not call or change the store.
C20_RejectedCommitIsNoOp ==
  (/\ last.op = "addComment"
   /\ \/ PositionChosen(uiPre) /\ ~NotBlank(last.text)
      \/ AwaitingPosition(uiPre)) =>
    /\ ui = uiPre
    /\ StoreUntouched

\* C20 witness: a blank text was committed while a position was pending,
\* in a session that had saved a comment before
C20_Witness ==
  /\ last.op = "addComment"
  /\ PositionChosen(uiPre)
  /\ last.text = <<" ">>
  /\ PositionChosen(ui)
  /\ calls >= 1

\* C10: after importCSV(exportCSV()), a comment whose text is
\* He said, "hi" is in the Document with the same text, position and id.
C10_CsvRoundTripQuoted ==
  (last.op = "importCSV" /\ last.src = "roundtrip" /\ last.ret.k = "true") =>
    LET before == AllComments(pre.data.comments)
        after == AllComments(data.comments)
    IN \A i \in 1..Len(before) :
         before[i].text = TextQuoted =>
           \E j \in 1..Len(after) :
             /\ after[j].id = before[i].id
             /\ after[j].text = before[i].text
             /\ after[j].position_x = before[i].position_x
             /\ after[j].position_y = before[i].position_y
             /\ after[j].position_z = before[i].position_z

\* C21: a click in AwaitingPosition that resolves no position leaves the
\* workflow in AwaitingPosition without a pending position and shows the
\* invalid-position warning; a click that resolves one stores it with the
\* feature name (null when no feature was hit) and leads to PositionChosen.
\* Neither touches the store, throws, or changes the user name or the scene
\* group that a later activation, click or commit needs.
C21_PickOutcome ==
  (last.op = "handleCommentModeClick" /\ AwaitingPosition(uiPre)) =>
    /\ IF last.position = <<>>
       THEN /\ AwaitingPosition(ui)
            /\ ui.pendingFeature = uiPre.pendingFeature
            /\ last.toast = "warning"
       ELSE /\ PositionChosen(ui)
            /\ ui.pendingPosition = last.position
            /\ ui.pendingFeature = last.featureName
    /\ ui.userName = uiPre.userName
    /\ ui.currentGroup = uiPre.currentGroup
    /\ last.ret.k # "throw"
    /\ StoreUntouched

\* C22: cancelling from AwaitingPosition or PositionChosen, by the cancel
\* button (exitCommentMode) or by cancelComment, clears the pending position
\* and feature and leaves the workflow Inactive; the store is not called.
C22_CancelDeactivates ==
  (last.op \in {"exitCommentMode", "cancelComment"} /\ ~Inactive(uiPre)) =>
    /\ ui.pendingPosition = <<>>
    /\ ui.pendingFeature = Null
    /\ Inactive(ui)
    /\ StoreUntouched

\* C23: after the Escape key, after the comments panel was hidden and after
\* the scene was cleared, the workflow is Inactive without a pending
\* position or feature, and nothing was saved.
C23_InterruptionDeactivates ==
  last.op \in {"handleEscapeKey", "hidePanel", "clearScene", "loadScene"} =>
    /\ Inactive(ui)
    /\ ui.pendingPosition = <<>>
    /\ ui.pendingFeature = Null
    /\ last.saves = 0
    /\ data = pre.data
    /\ storage = pre.storage

\* what getComments returns for the scene that is active: nothing when no
\* scene is
ActiveComments ==
  IF ui.currentGroup = <<>> THEN <<>> ELSE GetComments(St, ui.currentGroup[1])

\* how many elements of the list carry the id
CountId(list, id) == Cardinality({i \in 1..Len(list) : list[i].id = id})

IdSet(list) == {list[i].id : i \in 1..Len(list)}

\* C24: the scene graph holds one icon and one label per comment that
\* getComments returns for the active scene, tagged with its id, and no
\* icon or label with any other id.
C24_OneMarkerPerComment ==
  \A id \in IdSet(ActiveComments) \cup IdSet(ui.billboards) \cup IdSet(ui.labels) :
    /\ CountId(ui.billboards, id) = CountId(ActiveComments, id)
    /\ CountId(ui.labels, id) = CountId(ActiveComments, id)

\* C27: after saveEditComment reported success, the scene graph holds a
\* label tagged with the edited comment's id, and every such label shows
\* the preview of the new text.
C27_EditRefreshesLabel ==
  (last.op = "saveEditComment" /\ last.toast = "success") =>
    /\ \E i \in 1..Len(ui.labels) : ui.labels[i].id = last.id
    /\ \A i \in 1..Len(ui.labels) :
         ui.labels[i].id = last.id => ui.labels[i].text = PreviewText(Trim(last.text))

\* the comments the Document holds for the scene that is active
ActiveDocumentList ==
  IF ui.currentGroup = <<>> \/ NoComments(data) THEN <<>>
  ELSE ListOrEmpty(data.comments, ui.currentGroup[1])

Settled(m, i) ==
  \A t \in 1..Len(m.timers) : ~(m.timers[t].kind = "pulse" /\ m.timers[t].index = i)

\* C25: highlight toggles the scale of the comment's icon six times and
\* then leaves it as it was before the highlight, shows the label until the
\* label timer runs out, and changes nothing for an id without a marker.
\* An icon is added with ScaleOne, so an icon no pulse is pending for has
\* ScaleOne again.
C25_HighlightRestoresScale ==
  /\ (last.op = "highlightComment" /\ ~HasId(uiPre.billboards, last.id)) => ui = uiPre
  /\ (last.op = "highlightComment" /\ HasId(uiPre.billboards, last.id)) =>
       /\ HasId(ui.labels, last.id) => ui.labels[FindIndex(ui.labels, last.id)].show
       /\ ui.billboards[FindIndex(ui.billboards, last.id)].scale =
            Enlarged(uiPre.billboards[FindIndex(uiPre.billboards, last.id)].scale)
  /\ (last.op = "timer" /\ last.src = "label") =>
       \E i \in 1..Len(ui.labels) : uiPre.labels[i].show /\ ~ui.labels[i].show
  /\ \A t \in 1..Len(ui.timers) :
       ui.timers[t].kind = "pulse" => ui.timers[t].pulseCount \in 1..PulseSteps
  /\ \A i \in 1..Len(ui.billboards) :
       Settled(ui, i) => ui.billboards[i].scale = ScaleOne

\* the call deleted from a scene that holds a comment with the id
DeletesPresentId ==
  /\ last.op = "deleteComment"
  /\ ~NoComments(pre.data)
  /\ HasKey(pre.data.comments, last.scene)
  /\ HasId(GetList(pre.data.comments, last.scene), last.id)

\* list without its element at place i
WithoutPlace(list, i) == SubSeq(list, 1, i - 1) \o SubSeq(list, i + 1, Len(list))

\* C26: deleteComment(id, sceneKey) for an id present in the scene leaves
\* the scene's list as it was without that one comment, in the same order,
\* leaves every other scene's list alone and persists the result;
\* updateComment never changes the number of comments of a scene.
C26_DeleteRemovesExactlyOne ==
  /\ DeletesPresentId =>
       /\ ~NoComments(data)
       /\ ListOrEmpty(data.comments, last.scene) =
            WithoutPlace(GetList(pre.data.comments, last.scene),
                         FindIndex(GetList(pre.data.comments, last.scene), last.id))
       /\ \A s \in Scenes \ {last.scene} :
            ListOrEmpty(data.comments, s) = ListOrEmpty(pre.data.comments, s)
       /\ storage = Item(Stringify(data))
  /\ (last.op = "updateComment" /\ ~NoComments(pre.data)) =>
       /\ ~NoComments(data)
       /\ \A s \in Scenes :
            Len(ListOrEmpty(data.comments, s)) = Len(ListOrEmpty(pre.data.comments, s))

\* the keys of the cache, in insertion order
CacheKeys(c) == [i \in 1..Len(c) |-> c[i].key]

RECURSIVE RawFields(_, _, _)
\* the fields of a CSV line as written, quotes included: a comma outside
\* quotes ends a field
RawFields(s, current, inQuotes) ==
  IF s = <<>> THEN <<current>>
  ELSE IF Head(s) = Quote THEN RawFields(Tail(s), Append(current, Quote), ~inQuotes)
  ELSE IF Head(s) = "," /\ ~inQuotes THEN <<current>> \o RawFields(Tail(s), <<>>, FALSE)
  ELSE RawFields(Tail(s), Append(current, Head(s)), inQuotes)

RECURSIVE QuotesDoubled(_)
\* every double quote of s is one of a pair
QuotesDoubled(s) ==
  IF s = <<>> THEN TRUE
  ELSE IF Head(s) = Quote
       THEN Len(s) >= 2 /\ s[2] = Quote /\ QuotesDoubled(Tail(Tail(s)))
       ELSE QuotesDoubled(Tail(s))

\* a field wrapped in double quotes with its own quotes doubled
WrappedField(f) ==
  /\ Len(f) >= 2
  /\ f[1] = Quote
  /\ f[Len(f)] = Quote
  /\ QuotesDoubled(SubSeq(f, 2, Len(f) - 1))

\* the lines of the text exportCSV() returns for the Document
ExportedLines == Split(exportCSV(version, data).str, "\n")

\* C30: exportCSV() gives the header row and then one data row per comment
\* of the Document, and each of the nine fields of a data row is wrapped in
\* double quotes with the quotes inside it doubled.
C30_CsvAllFieldsQuoted ==
  (~NoComments(data) /\ CsvExportable(data)) =>
    /\ exportCSV(version, data).k = "string"
    /\ ExportedLines[1] = CsvHeader
    /\ Len(ExportedLines) = 1 + Len(AllComments(data.comments))
    /\ \A i \in 2..Len(ExportedLines) :
         /\ Len(RawFields(ExportedLines[i], <<>>, FALSE)) = 9
         /\ \A j \in 1..9 : WrappedField(RawFields(ExportedLines[i], <<>>, FALSE)[j])

\* C31: a position or a feature is pending only while the comment mode is
\* on, and a click into the scene while it is off sets none.
C31_PendingOnlyWhileActive ==
  /\ ui.pendingPosition # <<>> => ui.isCommentMode
  /\ ui.pendingFeature # Null => ui.isCommentMode
  /\ (last.op = "handleLeftClick" /\ Inactive(uiPre)) =>
       /\ ui.pendingPosition = <<>>
       /\ ui.pendingFeature = Null
       /\ Inactive(ui)

\* C31 witness: after a comment was committed, a click that hits a position
\* arrived while the comment mode was off
C31_Witness ==
  /\ last.op = "handleLeftClick"
  /\ Inactive(uiPre)
  /\ last.position # <<>>
  /\ calls > 0
  /\ ui.currentSceneComments # <<>>

\* the comment the last addComment saved
SavedComment == last.ret.rec[1]

C33_AuthorNeverEmpty ==
  (last.op = "addComment" /\ last.saves = 1 /\ last.ret.k = "record") =>
    /\ SavedComment.user # <<>>
    /\ \A s \in Scenes :
         \A i \in 1..Len(ListOrEmpty(data.comments, s)) :
           ListOrEmpty(data.comments, s)[i].id = SavedComment.id =>
             ListOrEmpty(data.comments, s)[i].user # <<>>

\* C34: whatever the order of highlights and timer callbacks, once no
\* timer is pending every icon has the scale it was added with and every
\* label is hidden.
C34_QuiescentMarkersRestored ==
  ui.timers = <<>> =>
    /\ \A i \in 1..Len(ui.billboards) : ui.billboards[i].scale = ScaleOne
    /\ \A i \in 1..Len(ui.labels) : ~ui.labels[i].show

\* the ids and texts of a list of comments, in order
IdTexts(list) == [i \in 1..Len(list) |-> <<list[i].id, list[i].text>>]

\* operations of the page after which the displayed list is compared
AppOps ==
  {"loadScene", "clearScene", "addComment", "saveEditComment",
   "manager.deleteComment", "handleFileImport", "manager.clearAllData"}

\* C35: after a scene load, scene clear, commit, edit, delete, import or
\* clearAllData the list the manager displays has the ids and texts, in
\* order, of what loadComments gives for the active scene, and is empty
\* when no scene is loaded.
C35_DisplayedListMatchesStore ==
  last.op \in AppOps =>
    IF ui.currentGroup = <<>> THEN ui.currentSceneComments = <<>>
    ELSE IdTexts(ui.currentSceneComments) = IdTexts(ActiveComments)

\* the scenes of the Document d, each with the ids and texts of its comments
SceneIdTexts(d) ==
  [i \in 1..Len(d.comments) |-> <<d.comments[i].key, IdTexts(d.comments[i].list)>>]

\* what each file of the import dialog holds, as scenes with ids and texts
FileIdTexts(file) ==
  IF file = "seed" THEN << <<SceneA, << <<SeedComment(version).id, TextPlain>> >> >> >>
  ELSE IF file = "foreign"
  THEN << <<SceneB, << <<ForeignComment.id, TextPlain>> >> >> >>
  ELSE << <<SceneB, << <<ForeignComment.id, TextPlain>>,
                        <<SecondComment.id, TextQuoted>> >> >> >>

\* the second of two imports that were in flight together has just completed
BothImportsCompleted ==
  /\ last.op = "handleFileImport"
  /\ ui.reads = <<>>
  /\ Len(uiPre.reads) = 1
  /\ uiPre.reads[1].overlapped

\* C36: once the second of two imports that were in flight together has
\* completed, the Document holds the scenes, ids and texts of the file that
\* completed last and nothing else, the displayed list is the Document's
\* list for the active scene, and the scene graph holds one icon and one
\* label for each comment of that list and no other.
C36_LastImportWins ==
  BothImportsCompleted =>
    /\ SceneIdTexts(data) = FileIdTexts(last.src)
    /\ IdTexts(ui.currentSceneComments) = IdTexts(ActiveDocumentList)
    /\ \A id \in IdSet(ActiveDocumentList) \cup IdSet(ui.billboards) \cup IdSet(ui.labels) :
         /\ CountId(ui.billboards, id) = CountId(ActiveDocumentList, id)
         /\ CountId(ui.labels, id) = CountId(ActiveDocumentList, id)

\* the comments of the Document d as a set: scene, id and text of each
CommentSet(d) ==
  UNION { { <<d.comments[i].key, d.comments[i].list[j].id, d.comments[i].list[j].text>> :
            j \in 1..Len(d.comments[i].list) } : i \in 1..Len(d.comments) }

\* C37: importCSV(exportCSV()) on a Document made by adds, updates and
\* deletes returns true and leaves the Document with the same comments, by
\* scene, id and text.
C37_CsvRoundTripKeepsComments ==
  last.op = "importCSV(exportCSV())" =>
    /\ last.ret.k = "true"
    /\ CommentSet(data) = CommentSet(pre.data)

====
